---------------------------- MODULE Spec2Model ----------------------------
(***************************************************************************)
(* Model of the satellite propagation worker                               *)
(* (src/src/app/workers/satellite-worker.ts).                              *)
(*                                                                         *)
(* Strings are sequences of tokens, so that the template literal that      *)
(* builds the cache key is a real concatenation.  JavaScript numbers are   *)
(* records [k, v]: k = "fin" with an integer v, "nan", or "inf"; products  *)
(* beyond MaxDouble overflow to infinity as IEEE doubles do.  Angles are   *)
(* integers in units of a quarter turn (pi/2), the only angles whose sine  *)
(* and cosine are exact; the library's orbits are equatorial and placed on *)
(* the axes, where the repository's transforms can be computed exactly.    *)
(***************************************************************************)
EXTENDS Integers, Sequences, FiniteSets, TLC

VARIABLES
    inbox,           \* messages posted to the worker, not yet handled
    outbox,          \* messages posted by the worker, not yet delivered
    satelliteCache,  \* the Map of line 58: cache key -> satrec
    last,            \* history: the last message handled and what the handler did
    firstParsed,     \* history: (noradId, line1, line2) -> record of its first successful parse
    lonIn,           \* input of the longitude normalisation (SpecLon)
    lonOut,          \* its result (SpecLon)
    visIn,           \* input of the visibility classifier (SpecVis)
    visOut,          \* its result (SpecVis)
    tleIn,           \* text fetched by the catalog route (SpecTle)
    tleOut,          \* the entries parsed from it (SpecTle)
    satelliteDataRef,  \* the hook's catalog (useSatellites.ts, line 77)
    hook,            \* the hook's React state and what is pending in it
    running,         \* the message the worker's handler is running on
    postedLog,       \* history: the triggers the hook posted, in order
    emittedLog,      \* history: the triggers the worker answered, in order
    hist,            \* history: what happened while a pass was running
    routeCache,      \* a route's cache: the Map cache of above/route.ts and of
                     \* n2yo/route.ts, the files of the data directory of fetch-tle
    routeNow,        \* Date.now() in the routes
    served           \* history: the request a route handled last and its answer

workerVars == <<inbox, outbox, satelliteCache, last, firstParsed>>
lonVars == <<lonIn, lonOut>>
visVars == <<visIn, visOut>>
tleVars == <<tleIn, tleOut>>
hookVars == <<satelliteDataRef, hook, running, postedLog, emittedLog, hist>>
routeVars == <<routeCache, routeNow, served>>

vars == <<inbox, outbox, satelliteCache, last, firstParsed, lonIn, lonOut, visIn, visOut,
          tleIn, tleOut, satelliteDataRef, hook, running, postedLog, emittedLog, hist,
          routeCache, routeNow, served>>

---------------------------------------------------------------------------
\* Bounds of the model.

MaxCatalog == 2          \* longest catalog carried by a PROPAGATE message
MaxDouble == 1000000000  \* largest finite magnitude; beyond it a product is Infinity
LonBound == 720          \* longitudes -LonBound..LonBound degrees are normalised in SpecLon
VisSpan == 20            \* the object is up to VisSpan degrees from the observer in SpecVis
MaxLines == 4            \* lines of the text parsed in SpecTle
MaxTriggers == 3         \* triggers the hook posts in SpecHook
MaxFetches == 2          \* calls of fetchSatelliteData in SpecHook, the one at mount included

---------------------------------------------------------------------------
\* JavaScript values.

Undefined == <<"#undefined">>          \* the value undefined where a string is expected

\* String(s) as a template literal computes it.
StringOf(s) == IF s = Undefined THEN <<"undefined">> ELSE s

Fin(n) == [k |-> "fin", v |-> n]
NaN == [k |-> "nan", v |-> 0]
Infinity == [k |-> "inf", v |-> 1]

isFinite(d) == d.k = "fin"

Abs(n) == IF n < 0 THEN -n ELSE n

Neg(d) == IF d.k = "fin" THEN Fin(-d.v) ELSE [d EXCEPT !.v = -d.v]

Mul(a, b) ==
    IF a.k = "nan" \/ b.k = "nan" THEN NaN
    ELSE IF a.k = "inf" \/ b.k = "inf"
         THEN IF a = Fin(0) \/ b = Fin(0) THEN NaN ELSE Infinity
    ELSE IF Abs(a.v) > 0 /\ Abs(b.v) > MaxDouble \div Abs(a.v) THEN Infinity
    ELSE Fin(a.v * b.v)

Add(a, b) ==
    IF a.k = "nan" \/ b.k = "nan" THEN NaN
    ELSE IF a.k = "inf" \/ b.k = "inf" THEN Infinity
    ELSE Fin(a.v + b.v)

RECURSIVE IntSqrt(_, _, _)
IntSqrt(n, lo, hi) ==
    IF lo >= hi THEN lo
    ELSE LET mid == (lo + hi + 1) \div 2
         IN  IF mid * mid <= n THEN IntSqrt(n, mid, hi) ELSE IntSqrt(n, lo, mid - 1)

Sqrt(d) ==
    IF d.k = "nan" THEN NaN
    ELSE IF d.k = "inf" THEN Infinity
    ELSE Fin(IntSqrt(d.v, 0, 46340))

Vec(x, y, z) == [x |-> x, y |-> y, z |-> z]

---------------------------------------------------------------------------
\* The satellite.js library (imported at lines 1-7), as the worker sees it.
\* A line of element text is a sequence of tokens; the tokens of line 2, which
\* holds the mean elements, decide what the library computes:
\*   "x"  a malformed numeric field: the parsed mean motion is NaN
\*   "d"  a low orbit (radius LowRadius) that has decayed from instant
\*        DecayInstant on
\*   "n"  propagate returns null
\*   "v"  propagate returns a finite position and a velocity with NaN components
\*   "h"  an orbit whose radius is finite and whose square overflows

Has(line, tok) == \E i \in 1..Len(line) : line[i] = tok

NullRec == [null |-> TRUE, line1 |-> <<>>, line2 |-> <<>>, no |-> NaN, ecco |-> NaN, inclo |-> NaN]

\* twoline2satrec throws when a line is not a string (it calls substring on it).
Twoline2satrecThrows(line1, line2) == line1 = Undefined \/ line2 = Undefined

Twoline2satrec(line1, line2) ==
    [null |-> FALSE, line1 |-> line1, line2 |-> line2,
     no |-> IF Has(line2, "x") THEN NaN ELSE Fin(15),
     ecco |-> Fin(0), inclo |-> Fin(0)]

DecayInstant == 2
OrbitRadius == 6778      \* km
LowRadius == 6500        \* km; less than 200 km above the ellipsoid
HugeRadius == 40000      \* km; its square is beyond MaxDouble
OrbitSpeed == 8          \* km/s

CosQ(q) == CASE q % 4 = 0 -> 1 [] q % 4 = 1 -> 0 [] q % 4 = 2 -> -1 [] OTHER -> 0
SinQ(q) == CASE q % 4 = 0 -> 0 [] q % 4 = 1 -> 1 [] q % 4 = 2 -> 0 [] OTHER -> -1

\* propagate(satrec, date): {position, velocity} in the inertial frame.  The
\* object moves half a turn per instant along an equatorial circle.
Propagate(satrec, t) ==
    LET q == Len(satrec.line1) + 2 * t
        r == IF Has(satrec.line2, "h") THEN HugeRadius
             ELSE IF Has(satrec.line2, "d") THEN LowRadius
             ELSE OrbitRadius
        pos == Vec(Fin(r * CosQ(q)), Fin(r * SinQ(q)), Fin(0))
        vel == Vec(Fin(-OrbitSpeed * SinQ(q)), Fin(OrbitSpeed * CosQ(q)), Fin(0))
        nanv == Vec(NaN, NaN, NaN)
    IN  IF Has(satrec.line2, "n")
        THEN [null |-> TRUE, hasPosition |-> FALSE, position |-> nanv,
              hasVelocity |-> FALSE, velocity |-> nanv]
        ELSE IF ~isFinite(satrec.no)
        THEN [null |-> FALSE, hasPosition |-> TRUE, position |-> nanv,
              hasVelocity |-> TRUE, velocity |-> nanv]
        ELSE IF Has(satrec.line2, "d") /\ t >= DecayInstant
        THEN [null |-> FALSE, hasPosition |-> FALSE, position |-> nanv,
              hasVelocity |-> FALSE, velocity |-> nanv]
        ELSE [null |-> FALSE, hasPosition |-> TRUE, position |-> pos,
              hasVelocity |-> TRUE,
              velocity |-> IF Has(satrec.line2, "v") THEN nanv ELSE vel]

\* gstime(date): the sidereal angle, a quarter turn per instant.
Gstime(t) == t % 4

\* eciToEcf(v, gmst): rotation about the polar axis by -gmst.
EciToEcf(v, gmst) ==
    LET c == Fin(CosQ(gmst))
        s == Fin(SinQ(gmst))
    IN  Vec(Add(Mul(v.x, c), Mul(v.y, s)),
            Add(Neg(Mul(v.x, s)), Mul(v.y, c)),
            v.z)

---------------------------------------------------------------------------
\* ecefToGeodetic (lines 78-99), on points of the equatorial plane that lie on
\* an axis.  There the latitude iteration is at its fixed point 0 from the
\* start (sin 0 = 0, cos 0 = 1), N = a, and the height is p - a.

WGS84a == 6378           \* km, line 79 (6378.137)
QuartersPerPi == 2       \* pi is two quarter turns

\* Math.atan2(y, x) in quarter turns.
Atan2(y, x) ==
    IF y.k = "nan" \/ x.k = "nan" THEN NaN
    ELSE IF y.v = 0 THEN (IF x.v < 0 THEN Fin(2) ELSE Fin(0))
    ELSE IF y.v > 0 THEN Fin(1)
    ELSE Fin(-1)

EcefToGeodetic(x, y, z) ==
    LET lon == Atan2(y, x)
        p == Sqrt(Add(Mul(x, x), Mul(y, y)))
        lat == Atan2(z, p)
        height == Add(p, Fin(-WGS84a))
    IN  [latitude |-> lat, longitude |-> lon, height |-> height]

\* (rad * 180) / Math.PI
RadToDeg(rad) == IF rad.k = "fin" THEN Fin((rad.v * 180) \div QuartersPerPi) ELSE rad

\* JavaScript's %: the remainder has the sign of the dividend.
JsRem(a, n) == IF a >= 0 THEN a % n ELSE -((-a) % n)

\* One remainder only: ((lonDeg + 180) % 360) - 180.
NormalizeLonOneRemainder(lonDeg) == JsRem(lonDeg + 180, 360) - 180

\* Line 234: ((((lonDeg + 180) % 360) + 360) % 360) - 180.
NormalizeLon(lonDeg) == JsRem(JsRem(lonDeg + 180, 360) + 360, 360) - 180

---------------------------------------------------------------------------
\* isSatelliteVisible (lines 101-133).  Latitudes and longitudes are whole
\* degrees and the altitude is in metres.  The observer and the object are
\* both on the equator or both on one meridian; there one term of the
\* haversine a (lines 124-126) vanishes and a = sin^2(d / 2), with d the
\* difference of the longitudes or of the latitudes.

earthRadius == 6371      \* km, line 108
MinAltitude == 200       \* km, line 109
MaxDistance == 2000      \* km, line 132
PiNum == 355             \* pi is PiNum / PiDen
PiDen == 113

\* sin^2(d / 2) for d in degrees, named by the angle of [0, 180] degrees with
\* the same sin^2 of its half: sin^2 is even and has the period 180 degrees.
SinSquaredHalf(d) ==
    LET y == Abs(d) % 360
    IN  IF y > 180 THEN 360 - y ELSE y

\* Lines 116-128: c in degrees.  2 * atan2(sqrt(a), sqrt(1 - a)) with
\* a = sin^2(h), h in [0, 90] degrees, is 2 * h.
CentralAngle(lat1, lon1, lat2, lon2) ==
    IF lon1 = lon2
    THEN SinSquaredHalf(lat2 - lat1)
    ELSE SinSquaredHalf(lon2 - lon1)

\* alt <= minAltitude in place of alt < minAltitude.
IsSatelliteVisibleAtOrBelow(position, observerLat, observerLon) ==
    IF position.alt <= MinAltitude * 1000
    THEN FALSE
    ELSE earthRadius * CentralAngle(observerLat, observerLon, position.lat, position.lon) * PiNum
            < MaxDistance * 180 * PiDen

\* distance = earthRadius * c with c in radians (c degrees * pi / 180).
IsSatelliteVisible(position, observerLat, observerLon) ==
    IF position.alt < MinAltitude * 1000
    THEN FALSE
    ELSE earthRadius * CentralAngle(observerLat, observerLon, position.lat, position.lon) * PiNum
            < MaxDistance * 180 * PiDen

VisInput(lat, lon, alt, observerLat, observerLon) ==
    [position |-> [lat |-> lat, lon |-> lon, alt |-> alt],
     observerLat |-> observerLat, observerLon |-> observerLon]

\* Altitudes in metres: the ground, a metre below the threshold, the
\* threshold, a low orbit.
VisAltitudes == {0, 199999, 200000, 400000}

VisInputs ==
    {VisInput(0, NormalizeLon(obs + d), alt, 0, obs) :
        obs \in {-180, 0, 170}, d \in (-VisSpan)..VisSpan, alt \in VisAltitudes}
    \cup
    {VisInput(obs + d, 10, alt, obs, 10) :
        obs \in {-60, 0, 60}, d \in (-VisSpan)..VisSpan, alt \in VisAltitudes}

---------------------------------------------------------------------------
\* Catalog entries (SatelliteData, lines 9-17).  hasTle = FALSE is an entry
\* whose tle is undefined.

Entry(name, id, line1, line2) ==
    [name |-> name, noradId |-> id, category |-> "leo", hasTle |-> TRUE,
     tle |-> [line1 |-> line1, line2 |-> line2]]

EntryA == Entry("A", <<"7">>, <<"g", "-", "x">>, <<"g">>)
EntryB == Entry("B", <<"7">>, <<"g">>, <<"x", "-", "g">>)
EntryD == Entry("D", <<"7">>, <<"g">>, <<"d">>)
EntryH == Entry("H", <<"8">>, <<"g">>, <<"h">>)
EntryV == Entry("V", <<"9">>, <<"g">>, <<"v">>)
EntryP == Entry("P", <<"9">>, <<"g">>, <<"n">>)
EntryU == Entry("U", <<"8">>, Undefined, <<"g">>)
EntryN == [Entry("N", <<"8">>, <<"g">>, <<"g">>) EXCEPT !.hasTle = FALSE]

Entries == {EntryA, EntryB, EntryD, EntryH, EntryV, EntryP, EntryU, EntryN}

SeqsUpTo(S, n) == UNION {[1..k -> S] : k \in 0..n}

Catalogs == SeqsUpTo(Entries, MaxCatalog)

\* data.timestamp: absent, or a number; 0 is falsy like an absent one.
Timestamps == {[has |-> FALSE, v |-> 0]} \cup {[has |-> TRUE, v |-> t] : t \in 0..2}

\* Date.now() at the time a message is handled.
Clock == {1, 2}

\* data.observerLat, observerLon, observerAlt (lines 41-43), in degrees and
\* km: absent, or an observer on the equator a quarter turn east of Greenwich.
NoObserver == [has |-> FALSE, lat |-> 0, lon |-> 0, alt |-> 0]
Observers == {NoObserver, [has |-> TRUE, lat |-> 0, lon |-> 90, alt |-> 0]}

\* WorkerMessage (lines 36-45).  data is "none" (no data), "nolist" (data
\* without satellites), "notiterable" (satellites is a truthy value that is
\* no list) or "list".
Messages ==
    {[type |-> "INIT", data |-> "none", satellites |-> <<>>,
      timestamp |-> [has |-> FALSE, v |-> 0], observer |-> NoObserver],
     [type |-> "OTHER", data |-> "none", satellites |-> <<>>,
      timestamp |-> [has |-> FALSE, v |-> 0], observer |-> NoObserver]}
    \cup [type : {"PROPAGATE"}, data : {"none", "nolist", "notiterable"},
          satellites : {<<>>}, timestamp : {[has |-> FALSE, v |-> 0]},
          observer : {NoObserver}]
    \cup [type : {"PROPAGATE"}, data : {"list"}, satellites : Catalogs,
          timestamp : Timestamps, observer : {NoObserver}]
    \cup [type : {"PROPAGATE"}, data : {"list"}, satellites : Catalogs,
          timestamp : {[has |-> TRUE, v |-> 1]}, observer : Observers]

---------------------------------------------------------------------------
\* fetchTLEFromCelesTrak (src/src/app/api/satellites/fetch-tle/route.ts,
\* lines 102-130).  A text is a sequence of characters.

WhiteSpace == {" ", "\r", "\n"}
Digits == {"0", "1", "2", "3", "4", "5", "6", "7", "8", "9"}

RECURSIVE TrimStart(_)
TrimStart(str) ==
    IF str # <<>> /\ Head(str) \in WhiteSpace THEN TrimStart(Tail(str)) ELSE str

RECURSIVE TrimEnd(_)
TrimEnd(str) ==
    IF str # <<>> /\ str[Len(str)] \in WhiteSpace
    THEN TrimEnd(SubSeq(str, 1, Len(str) - 1))
    ELSE str

\* String.prototype.trim.
Trim(str) == TrimEnd(TrimStart(str))

\* str.substring(from, to) for 0 <= from <= to: positions count from 0, to is
\* excluded, and both are clamped to the length.
Substring(str, from, to) ==
    LET lo == IF from > Len(str) THEN Len(str) ELSE from
        hi == IF to > Len(str) THEN Len(str) ELSE to
    IN  SubSeq(str, lo + 1, hi)

\* str.split("\n"): cur is the piece being read.
RECURSIVE SplitFrom(_, _, _)
SplitFrom(str, i, cur) ==
    IF i > Len(str) THEN <<cur>>
    ELSE IF str[i] = "\n" THEN <<cur>> \o SplitFrom(str, i + 1, <<>>)
    ELSE SplitFrom(str, i + 1, Append(cur, str[i]))

Split(str) == SplitFrom(str, 1, <<>>)

\* Line 116: /^[0-9]+$/.test(str).
IsDigits(str) == str # <<>> /\ \A i \in 1..Len(str) : str[i] \in Digits

\* The identifier read from line 2 alone.
NoradIdLine2Only(line1, line2) == Trim(Substring(line2, 2, 7))

\* Lines 115-118.
NoradId(line1, line2) ==
    LET noradId == Trim(Substring(line2, 2, 7))
    IN  IF ~IsDigits(noradId) THEN Trim(Substring(line1, 2, 7)) ELSE noradId

\* Lines 107-128: the loop from index i (counted from 0).
RECURSIVE ParseGroups(_, _, _)
ParseGroups(lines, i, category) ==
    IF ~(i < Len(lines)) THEN <<>>
    ELSE IF i + 2 < Len(lines)
    THEN LET name == Trim(lines[i + 1])
             line1 == Trim(lines[i + 2])
             line2 == Trim(lines[i + 3])
         IN  <<[name |-> name, line1 |-> line1, line2 |-> line2,
                category |-> category, noradId |-> NoradId(line1, line2)]>>
             \o ParseGroups(lines, i + 3, category)
    ELSE ParseGroups(lines, i + 3, category)

\* Lines 102-130.
ParseTLEText(text, category) == ParseGroups(Split(Trim(text)), 0, category)

\* Raw lines of a fetched text.
RawLines ==
    {<<"I", "S", "S">>,
     <<"1", " ", "0", "0", "0", "0", "7", "U">>,
     <<"2", " ", "2", "5", "5", "4", "4", " ", "5">>,
     <<" ", "2", " ", " ", " ", "1", "2", "3", " ", "5", "\r">>,
     <<"2", " ", "1", "2", "A", "4", "5", " ", "5">>,
     <<"2", " ", "1", " ", "3">>,
     <<"2">>,
     <<>>}

RECURSIVE Join(_)
Join(lines) ==
    IF lines = <<>> THEN <<>>
    ELSE IF Len(lines) = 1 THEN lines[1]
    ELSE lines[1] \o <<"\n">> \o Join(Tail(lines))

Texts == {Join(ls) : ls \in SeqsUpTo(RawLines, MaxLines)}

---------------------------------------------------------------------------
\* parseTLE (lines 60-75).

Triple(satellite) == <<satellite.noradId, satellite.tle.line1, satellite.tle.line2>>

\* Line 61.
CacheKey(satellite) ==
    StringOf(satellite.noradId) \o <<"-">> \o StringOf(satellite.tle.line1)
        \o <<"-">> \o StringOf(satellite.tle.line2)

\* parseTLE without the lookup of lines 63-65: every call parses.
ParseTLENoLookup(cache, satellite) ==
    LET cacheKey == CacheKey(satellite)
    IN  IF Twoline2satrecThrows(satellite.tle.line1, satellite.tle.line2)
        THEN [satrec |-> NullRec, cache |-> cache, invoked |-> TRUE]
        ELSE LET satrec == Twoline2satrec(satellite.tle.line1, satellite.tle.line2)
             IN  [satrec |-> satrec, cache |-> (cacheKey :> satrec) @@ cache,
                  invoked |-> TRUE]

IsPrefix(pre, seq) == Len(pre) <= Len(seq) /\ SubSeq(seq, 1, Len(pre)) = pre

\* parseTLE that supersedes: a new record evicts the records cached for the
\* same noradId.
ParseTLESuperseding(cache, satellite) ==
    LET cacheKey == CacheKey(satellite)
        kept == {k \in DOMAIN cache : ~IsPrefix(StringOf(satellite.noradId) \o <<"-">>, k)}
    IN  IF cacheKey \in DOMAIN cache
        THEN [satrec |-> cache[cacheKey], cache |-> cache, invoked |-> FALSE]
        ELSE IF Twoline2satrecThrows(satellite.tle.line1, satellite.tle.line2)
        THEN [satrec |-> NullRec, cache |-> cache, invoked |-> TRUE]
        ELSE LET satrec == Twoline2satrec(satellite.tle.line1, satellite.tle.line2)
             IN  [satrec |-> satrec,
                  cache |-> (cacheKey :> satrec) @@ [k \in kept |-> cache[k]],
                  invoked |-> TRUE]

\* The result, the cache afterwards, and whether twoline2satrec was called.
ParseTLE(cache, satellite) ==
    LET cacheKey == CacheKey(satellite)
    IN  IF cacheKey \in DOMAIN cache
        THEN [satrec |-> cache[cacheKey], cache |-> cache, invoked |-> FALSE]
        ELSE IF Twoline2satrecThrows(satellite.tle.line1, satellite.tle.line2)
        THEN [satrec |-> NullRec, cache |-> cache, invoked |-> TRUE]
        ELSE LET satrec == Twoline2satrec(satellite.tle.line1, satellite.tle.line2)
             IN  [satrec |-> satrec, cache |-> (cacheKey :> satrec) @@ cache,
                  invoked |-> TRUE]

---------------------------------------------------------------------------
\* propagateSatellites (lines 135-271).  The accumulator holds the locals of
\* the function, the cache, and a history entry per catalog entry (log): what
\* became of it (fate), the record parseTLE returned, and whether the parser ran.

\* Lines 156-160.
SatrecInvalid(satrec) ==
    ~isFinite(satrec.no) \/ ~isFinite(satrec.ecco) \/ ~isFinite(satrec.inclo)

\* Lines 176-181.
PropagationFailed(pv) ==
    \/ ~pv.hasPosition
    \/ ~isFinite(pv.position.x)
    \/ ~isFinite(pv.position.y)
    \/ ~isFinite(pv.position.z)

\* Lines 190-194.
VelocityMissing(pv) == ~pv.hasPosition \/ ~pv.hasVelocity

\* Lines 221-225.
GeodeticInvalid(geodetic) ==
    \/ ~isFinite(geodetic.latitude)
    \/ ~isFinite(geodetic.longitude)
    \/ ~isFinite(geodetic.height)

\* Lines 153, 197, 229.
CountParsed(acc) == [acc EXCEPT !.parsedCount = @ + 1]
CountPropagated(acc) == [acc EXCEPT !.propagatedCount = @ + 1]
CountGeodetic(acc) == [acc EXCEPT !.geodeticCount = @ + 1]

\* The altitude rule of the classifier applied to the sample.
VisibleAboveMinAltitude(position, observer) == ~(position.alt.v < MinAltitude)

\* The classifier of lines 101-133 applied to the sample and the observer.
VisibleToObserver(position, observer) ==
    IsSatelliteVisible([lat |-> position.lat.v, lon |-> position.lon.v,
                        alt |-> position.alt.v * 1000],
                       observer.lat, observer.lon)

\* Line 249: const visible = true.
Visible(position, observer) == TRUE

\* Lines 231-258: the sample pushed for an entry.
Sample(satellite, geodetic, velocityEcf, observer) ==
    LET latDeg == RadToDeg(geodetic.latitude)
        lonDeg == Fin(NormalizeLon(RadToDeg(geodetic.longitude).v))
        position == [lat |-> latDeg, lon |-> lonDeg, alt |-> geodetic.height]
    IN  [name |-> satellite.name, noradId |-> satellite.noradId,
         category |-> satellite.category,
         position |-> position,
         velocity |-> Vec(velocityEcf.x, velocityEcf.y, velocityEcf.z),
         visible |-> Visible(position, observer)]

\* unshift instead of push.
PushFront(positions, sample) == <<sample>> \o positions

\* Line 251.
Push(positions, sample) == Append(positions, sample)

Logged(acc, fate, parsed) ==
    [acc EXCEPT !.log = Append(@, [fate |-> fate, satrec |-> parsed.satrec,
                                   invoked |-> parsed.invoked])]

NotParsed == [satrec |-> NullRec, invoked |-> FALSE]

\* Lines 150-261: one iteration of the loop.
LoopBody(acc0, satellite, t, observer) ==
    IF ~satellite.hasTle
    THEN \* line 61 throws a TypeError, caught at line 259
         Logged(acc0, "threwParsing", NotParsed)
    ELSE
    LET parsed == ParseTLE(acc0.cache, satellite)
        satrec == parsed.satrec
        acc1 == [acc0 EXCEPT !.cache = parsed.cache]
    IN  IF satrec.null THEN Logged(acc1, "parseNull", parsed)
        ELSE
        LET acc2 == CountParsed(acc1)
        IN  IF SatrecInvalid(satrec) THEN Logged(acc2, "invalid", parsed)
            ELSE
            LET pv == Propagate(satrec, t)
            IN  IF pv.null
                THEN \* reading .position of null throws, caught at line 259
                     Logged(acc2, "threwPropagating", parsed)
                ELSE IF PropagationFailed(pv) THEN Logged(acc2, "propagationFailed", parsed)
                ELSE IF VelocityMissing(pv) THEN Logged(acc2, "velocityMissing", parsed)
                ELSE
                LET acc3 == CountPropagated(acc2)
                    gmst == Gstime(t)
                    posEcf == EciToEcf(pv.position, gmst)
                    geodetic == EcefToGeodetic(posEcf.x, posEcf.y, posEcf.z)
                    velocityEcf == EciToEcf(pv.velocity, gmst)
                IN  IF GeodeticInvalid(geodetic)
                    THEN Logged([acc3 EXCEPT !.debugLogged = @ + 1],
                                "transformFailed", parsed)
                    ELSE Logged([CountGeodetic(acc3) EXCEPT
                                    !.positions = Push(@, Sample(satellite, geodetic, velocityEcf,
                                                             observer))],
                                "emitted", parsed)

RECURSIVE Loop(_, _, _, _, _)
Loop(acc, satellites, i, t, observer) ==
    IF i > Len(satellites) THEN acc
    ELSE Loop(LoopBody(acc, satellites[i], t, observer), satellites, i + 1, t, observer)

\* observer is (observerLat, observerLon, observerAlt) of lines 138-140.
PropagateSatellites(cache, satellites, t, observer) ==
    Loop([positions |-> <<>>, cache |-> cache, parsedCount |-> 0,
          propagatedCount |-> 0, geodeticCount |-> 0, debugLogged |-> 0,
          log |-> <<>>],
         satellites, 1, t, observer)

---------------------------------------------------------------------------
\* self.onmessage (lines 274-327) and the READY of line 330.

NoPass ==
    [positions |-> <<>>, cache |-> <<>>, parsedCount |-> 0, propagatedCount |-> 0,
     geodeticCount |-> 0, debugLogged |-> 0, log |-> <<>>]

Ready == [type |-> "READY", positions |-> <<>>, timestamp |-> 0, count |-> 0, error |-> ""]

ErrorResponse(message) ==
    [type |-> "ERROR", positions |-> <<>>, timestamp |-> 0, count |-> 0, error |-> message]

\* Lines 305-312.
PositionsResponse(positions, timestamp) ==
    [type |-> "POSITIONS", positions |-> positions, timestamp |-> timestamp,
     count |-> Len(positions), error |-> ""]

\* An empty list taken for a missing one.
NoSatelliteDataOrEmpty(msg) ==
    msg.data = "none" \/ msg.data = "nolist" \/ (msg.data = "list" /\ msg.satellites = <<>>)

\* Line 288.
NoSatelliteData(msg) == msg.data = "none" \/ msg.data = "nolist"

\* Line 292: data.timestamp || Date.now().
TimestampOf(msg, now) ==
    IF msg.timestamp.has /\ msg.timestamp.v # 0 THEN msg.timestamp.v ELSE now

\* Lines 293-295: data.observerLat || 0, and so for observerLon, observerAlt.
ObserverOf(msg) ==
    IF msg.observer.has
    THEN [lat |-> msg.observer.lat, lon |-> msg.observer.lon, alt |-> msg.observer.alt]
    ELSE [lat |-> 0, lon |-> 0, alt |-> 0]

\* The records first parsed from each (noradId, line1, line2), after a pass.
FirstParsedAfter(before, satellites, log) ==
    LET fresh(i) == satellites[i].hasTle /\ log[i].invoked /\ ~log[i].satrec.null
        new == {Triple(satellites[i]) : i \in {j \in 1..Len(satellites) : fresh(j)}}
        first(tr) == CHOOSE i \in 1..Len(satellites) :
                        /\ fresh(i) /\ Triple(satellites[i]) = tr
                        /\ \A j \in 1..(i - 1) : ~(fresh(j) /\ Triple(satellites[j]) = tr)
    IN  [tr \in (DOMAIN before) \cup new |->
            IF tr \in DOMAIN before THEN before[tr] ELSE log[first(tr)].satrec]

\* A message that is never posted.
PostMessageDropped(posted, response) == posted

\* self.postMessage (lines 284, 314, 325): posted is what the handler has
\* posted so far.
PostMessage(posted, response) == Append(posted, response)

\* Any message but PROPAGATE taken for INIT.
IsInitOrUnknown(msg) == msg.type # "PROPAGATE"

\* Line 279: case "INIT".
IsInit(msg) == msg.type = "INIT"

\* What the handler posts for msg, and the pass it ran (NoPass when it ran none).
Handle(msg, cache, now) ==
    IF IsInit(msg)
    THEN [emitted |-> PostMessage(<<>>, Ready), pass |-> [NoPass EXCEPT !.cache = cache], ran |-> FALSE, timestamp |-> 0]
    ELSE IF msg.type # "PROPAGATE"
    THEN [emitted |-> PostMessage(<<>>, ErrorResponse("Unknown message type")),
          pass |-> [NoPass EXCEPT !.cache = cache], ran |-> FALSE, timestamp |-> 0]
    ELSE IF NoSatelliteData(msg)
    THEN [emitted |-> PostMessage(<<>>, ErrorResponse("No satellite data provided")),
          pass |-> [NoPass EXCEPT !.cache = cache], ran |-> FALSE, timestamp |-> 0]
    ELSE IF msg.data = "notiterable"
    THEN \* for ... of throws a TypeError at line 149, caught at line 320
         [emitted |-> PostMessage(<<>>, ErrorResponse("satellites is not iterable")),
          pass |-> [NoPass EXCEPT !.cache = cache], ran |-> FALSE, timestamp |-> 0]
    ELSE LET timestamp == TimestampOf(msg, now)
             pass == PropagateSatellites(cache, msg.satellites, timestamp, ObserverOf(msg))
         IN  [emitted |-> PostMessage(<<>>, PositionsResponse(pass.positions, timestamp)),
              pass |-> pass, ran |-> TRUE, timestamp |-> timestamp]

NoMessage ==
    [type |-> "INIT", data |-> "none", satellites |-> <<>>,
     timestamp |-> [has |-> FALSE, v |-> 0], observer |-> NoObserver]

NotHandled ==
    [handled |-> FALSE, msg |-> NoMessage, emitted |-> <<>>, ran |-> FALSE, timestamp |-> 0,
     now |-> 1, pass |-> NoPass, cacheBefore |-> <<>>, parsedBefore |-> <<>>]

OnMessage ==
    /\ inbox # <<>>
    /\ \E now \in Clock :
          LET msg == Head(inbox)
              h == Handle(msg, satelliteCache, now)
          IN  /\ outbox' = outbox \o h.emitted
              /\ satelliteCache' = h.pass.cache
              /\ firstParsed' = FirstParsedAfter(firstParsed, msg.satellites, h.pass.log)
              /\ last' = [handled |-> TRUE, msg |-> msg, emitted |-> h.emitted,
                          ran |-> h.ran, timestamp |-> h.timestamp, now |-> now,
                          pass |-> h.pass, cacheBefore |-> satelliteCache,
                          parsedBefore |-> firstParsed]
    /\ inbox' = Tail(inbox)
    /\ UNCHANGED <<routeVars, lonVars, visVars, tleVars, hookVars>>

\* The consumer posts a message; it waits for the answer to the previous one
\* (the worker's state depends only on the order in which messages are handled).
Post ==
    /\ inbox = <<>>
    /\ outbox = <<>>
    /\ \E m \in Messages : inbox' = <<m>>
    /\ UNCHANGED <<routeVars, outbox, satelliteCache, last, firstParsed, lonVars, visVars, tleVars, hookVars>>

\* The consumer receives the oldest message the worker posted; the history of
\* the handler that posted it ends there.
Deliver ==
    /\ outbox # <<>>
    /\ outbox' = Tail(outbox)
    /\ last' = NotHandled
    /\ UNCHANGED <<routeVars, inbox, satelliteCache, firstParsed, lonVars, visVars, tleVars, hookVars>>

LonIdle == [done |-> FALSE, v |-> 0]

\* The module is loaded: the cache is empty and line 330 has posted READY.
WorkerLoaded ==
    /\ inbox = <<>>
    /\ outbox = <<Ready>>
    /\ satelliteCache = <<>>
    /\ firstParsed = <<>>
    /\ last = NotHandled

LonUnused == lonIn = 0 /\ lonOut = LonIdle

VisIdle == [done |-> FALSE, v |-> FALSE]

VisUnused == visIn = VisInput(0, 0, 0, 0, 0) /\ visOut = VisIdle

TleIdle == [done |-> FALSE, v |-> <<>>]

TleUnused == tleIn = <<>> /\ tleOut = TleIdle

Idle ==
    [busy |-> FALSE, msg |-> NoMessage, afterSupersede |-> FALSE, catalogAtStart |-> <<>>]

\* The category lists the caller selects; categories.join(",") (line 147)
\* tells them apart, and "" is the join of none.
InitialCategories == <<"active">>
CategoryLists == {<<"active">>, <<"gnss">>}

\* Lines 147-151: the request of fetchSatelliteData, with force=true when the
\* categories differ from the remembered ones.
FetchRequest(categories, lastCategories) ==
    [categories |-> categories, force |-> lastCategories # categories]

\* lastUpdate is null (line 73).
NoUpdate == -1

\* The hook after its first render and its mount effects: the timer is
\* installed (line 262), the first fetchSatelliteData awaits its response
\* (line 150), nothing is loaded.
Mounted ==
    [loading |-> TRUE, error |-> "null", satellites |-> <<>>, lastUpdate |-> NoUpdate,
     categories |-> InitialCategories, lastCategoriesRef |-> <<>>,
     inflight |-> <<[req |-> FetchRequest(InitialCategories, <<>>), seq |-> 1,
                     mustForce |-> FALSE]>>,
     fetches |-> 1,
     timers |-> {1}, intervalRef |-> 1, mounted |-> TRUE,
     dirty |-> FALSE, gotPositions |-> FALSE]

\* failed: the last fetch to complete failed; forced: the categories it
\* asked for with force=true, if it did.
NoFailure == [failed |-> FALSE, forced |-> <<>>]

HistNone ==
    [overrun |-> FALSE, superseded |-> FALSE, newestOk |-> FALSE, lateTick |-> FALSE,
     failure |-> NoFailure]

\* No route has handled a request.
NotServed == [handled |-> FALSE]

RoutesUnused == routeCache = <<>> /\ routeNow = 0 /\ served = NotServed

HookMounted ==
    /\ satelliteDataRef = <<>>
    /\ hook = Mounted
    /\ running = Idle
    /\ postedLog = <<>>
    /\ emittedLog = <<>>
    /\ hist = HistNone

Init == WorkerLoaded /\ LonUnused /\ VisUnused /\ TleUnused /\ HookMounted /\ RoutesUnused

Next == Post \/ OnMessage \/ Deliver

Spec == Init /\ [][Next]_vars

---------------------------------------------------------------------------
\* The longitude normalisation of line 234 as a function of its input.

Normalize ==
    /\ ~lonOut.done
    /\ lonOut' = [done |-> TRUE, v |-> NormalizeLon(lonIn)]
    /\ UNCHANGED <<routeVars, workerVars, lonIn, visVars, tleVars, hookVars>>

InitLon ==
    /\ WorkerLoaded
    /\ lonIn \in (-LonBound)..LonBound
    /\ lonOut = LonIdle
    /\ VisUnused
    /\ TleUnused
    /\ HookMounted
    /\ RoutesUnused

SpecLon == InitLon /\ [][Normalize]_vars

---------------------------------------------------------------------------
\* isSatelliteVisible as a function of its inputs.

Classify ==
    /\ ~visOut.done
    /\ visOut' = [done |-> TRUE,
                  v |-> IsSatelliteVisible(visIn.position, visIn.observerLat,
                                           visIn.observerLon)]
    /\ UNCHANGED <<routeVars, workerVars, lonVars, visIn, tleVars, hookVars>>

InitVis ==
    /\ WorkerLoaded
    /\ LonUnused
    /\ visIn \in VisInputs
    /\ visOut = VisIdle
    /\ TleUnused
    /\ HookMounted
    /\ RoutesUnused

SpecVis == InitVis /\ [][Classify]_vars

---------------------------------------------------------------------------
\* The parsing of fetchTLEFromCelesTrak as a function of the fetched text.

ParseFetchedText ==
    /\ ~tleOut.done
    /\ tleOut' = [done |-> TRUE, v |-> ParseTLEText(tleIn, "active")]
    /\ UNCHANGED <<routeVars, workerVars, lonVars, visVars, tleIn, hookVars>>

InitTle ==
    /\ WorkerLoaded
    /\ LonUnused
    /\ VisUnused
    /\ tleIn \in Texts
    /\ tleOut = TleIdle
    /\ HookMounted
    /\ RoutesUnused

SpecTle == InitTle /\ [][ParseFetchedText]_vars

---------------------------------------------------------------------------
\* The hook useSatellites (src/src/app/hooks/useSatellites.ts) and its worker.
\* The worker's handler runs from StartPass to FinishPass; the hook's
\* callbacks run in between, on the main thread.

\* The catalogs the route may answer with for a category list: the
\* provider's entries, which change from one fetch to the next, or none when
\* the provider fails (route.ts, lines 131-134, answers [] then).
FetchedCatalogs(categories) ==
    (IF categories = <<"active">> THEN {<<EntryA>>, <<EntryD>>} ELSE {<<EntryD>>})
        \cup {<<>>}

\* The messages of the errors caught at line 179: a response that is not OK
\* (line 153), a rejected fetch, a body JSON.parse rejects (line 161).
FetchErrors ==
    {"Failed to fetch satellite data: Internal Server Error", "Failed to fetch",
     "Unexpected end of JSON input"}

\* What the awaits of lines 150 and 160 can yield.
FetchOutcomes(req) ==
    {[ok |-> TRUE, catalog |-> c, error |-> "null"] : c \in FetchedCatalogs(req.categories)}
    \cup {[ok |-> FALSE, catalog |-> <<>>, error |-> e] : e \in FetchErrors}

\* Date.now() in the hook: the clock advances between two posts.
HookNow == Len(postedLog) + 1

\* Lines 168-177 and 244-253: the message posted.
Trigger(catalog, now) ==
    [type |-> "PROPAGATE", data |-> "list", satellites |-> catalog,
     timestamp |-> [has |-> TRUE, v |-> now],
     observer |-> [has |-> TRUE, lat |-> 0, lon |-> 0, alt |-> 0]]

\* A trigger that is dropped when another one waits or runs.
EnqueueCoalesced(queue, msg) == IF queue # <<>> THEN queue ELSE Append(queue, msg)

\* workerRef.current.postMessage (lines 168 and 244): the message joins the
\* worker's queue.
Enqueue(queue, msg) == Append(queue, msg)

\* The triggers posted and not yet answered.
Unanswered == {i \in 1..Len(postedLog) : i > Len(emittedLog)}

\* The hook posts a trigger for the catalog it holds.
PostTrigger(cause, catalog) ==
    /\ Len(postedLog) < MaxTriggers
    /\ inbox' = Enqueue(inbox, Trigger(catalog, HookNow))
    /\ postedLog' = Append(postedLog,
                           [cause |-> cause, msg |-> Trigger(catalog, HookNow),
                            whilePass |-> running.busy])

\* Any catalog taken for a loaded one.
CatalogAny(catalog) == TRUE

\* Lines 167 and 243: satelliteDataRef.current.length > 0.
CatalogLoaded(catalog) == catalog # <<>>

\* Lines 242-255: propagatePositions posts when the catalog is not empty.
PropagatePositions(cause) ==
    IF CatalogLoaded(satelliteDataRef)
    THEN PostTrigger(cause, satelliteDataRef)
    ELSE UNCHANGED <<inbox, postedLog>>

\* A timer that is never cleared.
ClearIntervalNoop(timers, id) == timers

\* clearInterval (lines 261 and 264); 0 is the null of an unset intervalRef.
ClearInterval(timers, id) == timers \ {id}

\* The id setInterval returns: one no active timer has.
NewTimer(timers) == CHOOSE n \in 1..(Cardinality(timers) + 1) :
                        n \notin timers /\ \A k \in 1..(n - 1) : k \in timers

\* Lines 263-265: the cleanup of the interval effect.
IntervalCleanup(h) == [h EXCEPT !.timers = ClearInterval(@, h.intervalRef)]

\* Lines 261-262: the timer is cleared and installed anew.
IntervalEffect(h) ==
    LET cleared == ClearInterval(h.timers, h.intervalRef)
        id == NewTimer(cleared)
    IN  [h EXCEPT !.timers = cleared \cup {id}, !.intervalRef = id]

\* Lines 143-150: fetchSatelliteData up to its await.  mustForce: the last
\* fetch to complete failed, and it was forced for the categories asked now.
BeginFetch(h) ==
    [h EXCEPT !.loading = TRUE, !.error = "null", !.fetches = @ + 1,
              !.inflight = Append(@, [req |-> FetchRequest(h.categories, h.lastCategoriesRef),
                                      seq |-> h.fetches + 1,
                                      mustForce |-> /\ hist.failure.failed
                                                    /\ hist.failure.forced = h.categories]),
              !.dirty = @ \/ ~h.loading \/ h.error # "null"]

\* Line 275: refresh calls fetchSatelliteData, here when no fetch is in
\* flight.
FetchStart ==
    /\ hook.mounted
    /\ hook.inflight = <<>>
    /\ hook.fetches < MaxFetches
    /\ hook' = BeginFetch(hook)
    /\ hist' = [hist EXCEPT !.newestOk = FALSE]
    /\ UNCHANGED <<routeVars, workerVars, lonVars, visVars, tleVars, satelliteDataRef, running,
                   postedLog, emittedLog>>

\* The renders of an unmounted hook are gone: its setters do nothing.
Rendered(h, next) == IF h.mounted THEN next ELSE h

\* The categories remembered whatever the outcome.
RememberAlways(ok, lastCategories, categoriesParam) == categoriesParam

\* Line 165 is reached when nothing threw before it.
Remember(ok, lastCategories, categoriesParam) ==
    IF ok THEN categoriesParam ELSE lastCategories

\* Without(seq, i) for the requests in flight.
Settled(inflight, i) ==
    [k \in 1..(Len(inflight) - 1) |-> IF k < i THEN inflight[k] ELSE inflight[k + 1]]

\* Lines 150-186: a response arrives, of any request in flight.  A catalog
\* replaces the one held and is posted at once when it is not empty; an
\* error is reported; loading ends.
FetchDone ==
    /\ hook.inflight # <<>>
    /\ \E i \in DOMAIN hook.inflight :
        \E outcome \in FetchOutcomes(hook.inflight[i].req) :
          LET fetch == hook.inflight[i]
              settled == [hook EXCEPT
                            !.inflight = Settled(@, i),
                            !.lastCategoriesRef =
                                Remember(outcome.ok, @, fetch.req.categories)]
          IN  /\ satelliteDataRef' = IF outcome.ok THEN outcome.catalog ELSE satelliteDataRef
              /\ IF outcome.ok /\ CatalogLoaded(outcome.catalog) /\ hook.mounted
                 THEN PostTrigger("catalog", outcome.catalog)
                 ELSE UNCHANGED <<inbox, postedLog>>
              /\ hook' = Rendered(settled,
                            IF outcome.ok
                            THEN [settled EXCEPT !.loading = FALSE,
                                                 !.dirty = @ \/ hook.loading]
                            ELSE [settled EXCEPT !.loading = FALSE,
                                                 !.error = outcome.error,
                                                 !.dirty = @ \/ hook.loading
                                                             \/ hook.error # outcome.error])
              /\ hist' = [hist EXCEPT
                            !.superseded = @ \/ (/\ outcome.ok /\ running.busy
                                                 /\ outcome.catalog # satelliteDataRef),
                            !.newestOk = IF fetch.seq = hook.fetches THEN outcome.ok ELSE @,
                            !.failure =
                                IF outcome.ok THEN NoFailure
                                ELSE [failed |-> TRUE,
                                      forced |-> IF fetch.req.force
                                                 THEN fetch.req.categories ELSE <<>>]]
    /\ UNCHANGED <<routeVars, outbox, satelliteCache, last, firstParsed, lonVars, visVars, tleVars,
                   running, emittedLog>>

\* Line 262: a timer calls propagatePositions.  The worker of an unmounted
\* hook is terminated (line 135) and takes no message.
Tick ==
    /\ hook.timers # {}
    /\ IF hook.mounted
       THEN /\ PropagatePositions("tick")
            /\ hist' = [hist EXCEPT !.overrun =
                            @ \/ (/\ satelliteDataRef # <<>>
                                  /\ \E i \in Unanswered : postedLog[i].cause = "tick")]
       ELSE /\ hist' = [hist EXCEPT !.lateTick = TRUE]
            /\ UNCHANGED <<inbox, postedLog>>
    /\ UNCHANGED <<routeVars, outbox, satelliteCache, last, firstParsed, lonVars, visVars, tleVars,
                   satelliteDataRef, hook, running, emittedLog>>

\* The trigger of line 260 in the render that follows a state change.
EffectCause(h) == IF h.gotPositions THEN "effect after POSITIONS" ELSE "effect"

\* The hook renders again after a state change (gotPositions: a POSITIONS
\* result is among the changes), or with a new updateInterval or observer.
\* observerPosition is a new object in every render (the default of line 67,
\* or the literal the callers pass), so propagatePositions (line 255) is a
\* new function and the effect of lines 258-266 runs again: its cleanup
\* first, then it calls propagatePositions (line 260) and installs the timer
\* anew.
Render ==
    /\ hook.mounted
    /\ hook.dirty
    /\ hook' = IntervalEffect(IntervalCleanup([hook EXCEPT !.dirty = FALSE,
                                                           !.gotPositions = FALSE]))
    /\ PropagatePositions(EffectCause(hook))
    /\ UNCHANGED <<routeVars, outbox, satelliteCache, last, firstParsed, lonVars, visVars, tleVars,
                   satelliteDataRef, running, emittedLog, hist>>

\* The caller renders the hook again, with another updateInterval or
\* observerPosition or with the same: the effect of lines 258-266 runs again.
PropsChange ==
    /\ hook.mounted
    /\ hook' = IntervalEffect(IntervalCleanup([hook EXCEPT !.dirty = FALSE,
                                                           !.gotPositions = FALSE]))
    /\ PropagatePositions(EffectCause(hook))
    /\ UNCHANGED <<routeVars, outbox, satelliteCache, last, firstParsed, lonVars, visVars, tleVars,
                   satelliteDataRef, running, emittedLog, hist>>

\* setCategories with another list: the hook renders, the interval effect
\* runs as in Render, and fetchSatelliteData, a new function (line 187), is
\* called by the effect of lines 269-271.
SetCategories ==
    /\ hook.mounted
    /\ hook.fetches < MaxFetches
    /\ \E categories \in CategoryLists \ {hook.categories} :
          hook' = BeginFetch(IntervalEffect(IntervalCleanup(
                      [hook EXCEPT !.categories = categories, !.dirty = FALSE,
                                   !.gotPositions = FALSE])))
    /\ PropagatePositions(EffectCause(hook))
    /\ hist' = [hist EXCEPT !.newestOk = FALSE]
    /\ UNCHANGED <<routeVars, outbox, satelliteCache, last, firstParsed, lonVars, visVars, tleVars,
                   satelliteDataRef, running, emittedLog>>

\* The hook unmounts: the cleanups of lines 132-136 and 263-265 run.
Unmount ==
    /\ hook.mounted
    /\ hook' = [IntervalCleanup(hook) EXCEPT !.mounted = FALSE]
    /\ UNCHANGED <<routeVars, workerVars, lonVars, visVars, tleVars, satelliteDataRef, running,
                   postedLog, emittedLog, hist>>

\* The worker takes the oldest queued message and its handler starts.
StartPass ==
    /\ hook.mounted
    /\ ~running.busy
    /\ inbox # <<>>
    /\ running' = [busy |-> TRUE, msg |-> Head(inbox),
                   afterSupersede |-> hist.superseded,
                   catalogAtStart |-> satelliteDataRef]
    /\ inbox' = Tail(inbox)
    /\ hist' = [hist EXCEPT !.superseded = FALSE]
    /\ UNCHANGED <<routeVars, outbox, satelliteCache, last, firstParsed, lonVars, visVars, tleVars,
                   satelliteDataRef, hook, postedLog, emittedLog>>

\* Line 292 reads the clock only when the message carries no instant.
ClockRead(msg) ==
    IF msg.timestamp.has /\ msg.timestamp.v # 0 THEN {1} ELSE Clock

\* The handler returns: self.onmessage (lines 274-327) on the message taken.
FinishPass ==
    /\ hook.mounted
    /\ running.busy
    /\ \E now \in ClockRead(running.msg) :
          LET msg == running.msg
              h == Handle(msg, satelliteCache, now)
          IN  /\ outbox' = outbox \o h.emitted
              /\ satelliteCache' = h.pass.cache
              /\ firstParsed' = FirstParsedAfter(firstParsed, msg.satellites, h.pass.log)
              /\ last' = [handled |-> TRUE, msg |-> msg, emitted |-> h.emitted,
                          ran |-> h.ran, timestamp |-> h.timestamp, now |-> now,
                          pass |-> h.pass, cacheBefore |-> satelliteCache,
                          parsedBefore |-> firstParsed]
              /\ emittedLog' = Append(emittedLog,
                                      [msg |-> msg,
                                       types |-> [i \in 1..Len(h.emitted) |-> h.emitted[i].type],
                                       timestamp |-> h.timestamp])
    /\ running' = Idle
    /\ UNCHANGED <<routeVars, inbox, lonVars, visVars, tleVars, satelliteDataRef, hook, postedLog, hist>>

\* An ERROR that also drops the batch shown.
OnErrorClearing(h, m) ==
    [h EXCEPT !.error = m.error, !.satellites = <<>>, !.lastUpdate = NoUpdate,
              !.dirty = TRUE]

\* Lines 119-121: setError(workerError || "Worker error").
OnError(h, m) ==
    LET message == IF m.error = "" THEN "Worker error" ELSE m.error
    IN  [h EXCEPT !.error = message, !.dirty = @ \/ h.error # message]

\* Lines 96-105: the batch, its instant, and no error.
OnPositions(h, m) ==
    [h EXCEPT !.satellites = m.positions, !.lastUpdate = m.timestamp, !.error = "null",
              !.dirty = TRUE, !.gotPositions = TRUE]

\* workerRef.current.onmessage (lines 88-125).
OnWorkerMessage ==
    /\ hook.mounted
    /\ outbox # <<>>
    /\ LET m == Head(outbox)
       IN  hook' =
             CASE m.type = "POSITIONS" -> OnPositions(hook, m)
               [] m.type = "ERROR" -> OnError(hook, m)
               [] OTHER -> hook
    /\ outbox' = Tail(outbox)
    /\ last' = NotHandled
    /\ UNCHANGED <<routeVars, inbox, satelliteCache, firstParsed, lonVars, visVars, tleVars,
                   satelliteDataRef, running, postedLog, emittedLog, hist>>

NextHook ==
    \/ FetchStart
    \/ FetchDone
    \/ Tick
    \/ Render
    \/ StartPass
    \/ FinishPass
    \/ OnWorkerMessage

\* The hook while its caller changes the categories and unmounts it; the
\* worker has not taken a message yet.
NextFetch ==
    \/ FetchStart
    \/ FetchDone
    \/ SetCategories
    \/ Tick
    \/ Render
    \/ PropsChange
    \/ Unmount

\* The hook is mounted and its handler has logged the READY of the worker's
\* load (line 92), which changes nothing in the hook.
InitHook ==
    /\ inbox = <<>>
    /\ outbox = <<>>
    /\ satelliteCache = <<>>
    /\ firstParsed = <<>>
    /\ last = NotHandled
    /\ LonUnused
    /\ VisUnused
    /\ TleUnused
    /\ HookMounted
    /\ RoutesUnused

SpecHook == InitHook /\ [][NextHook]_vars

SpecFetch == InitHook /\ [][NextFetch]_vars

---------------------------------------------------------------------------
\* workerRef.current.onmessage as a function of the hook's state and of the
\* message received.

\* The batches a POSITIONS message carries.
Batches ==
    {PropagateSatellites(<<>>, catalog, 1, [lat |-> 0, lon |-> 0, alt |-> 0]).positions :
        catalog \in {<<>>, <<EntryA>>, <<EntryA, EntryH>>}}

\* The messages the worker posts (lines 281-284, 305-314, 320-325).
WorkerResponses ==
    {Ready}
    \cup {ErrorResponse(e) : e \in {"No satellite data provided", "Unknown message type",
                                    "satellites is not iterable"}}
    \cup {PositionsResponse(positions, t) : positions \in Batches, t \in 1..2}

\* The hook before the message: nothing shown yet, or a batch and its
\* instant; no error, or the error of a fetch or of the worker.
HookStates ==
    {[Mounted EXCEPT !.loading = loading, !.error = error, !.satellites = shown.satellites,
                     !.lastUpdate = shown.lastUpdate, !.inflight = <<>>,
                     !.lastCategoriesRef = InitialCategories] :
        loading \in BOOLEAN,
        error \in {"null", "Failed to fetch", "Unknown message type"},
        shown \in {[satellites |-> <<>>, lastUpdate |-> NoUpdate]}
                  \cup {[satellites |-> b, lastUpdate |-> t] : b \in Batches, t \in 1..2}}

InitRecv ==
    /\ inbox = <<>>
    /\ outbox \in {<<m>> : m \in WorkerResponses}
    /\ satelliteCache = <<>>
    /\ firstParsed = <<>>
    /\ last = NotHandled
    /\ LonUnused
    /\ VisUnused
    /\ TleUnused
    /\ satelliteDataRef = <<EntryA>>
    /\ hook \in HookStates
    /\ running = Idle
    /\ postedLog = <<>>
    /\ emittedLog = <<>>
    /\ hist = HistNone
    /\ RoutesUnused

SpecRecv == InitRecv /\ [][OnWorkerMessage]_vars

---------------------------------------------------------------------------
\* The route /api/satellites/above (src/src/app/api/satellites/above/route.ts).
\* Times are in milliseconds.

MaxMinutes == 11         \* minutes the clock of the routes advances

\* The category names of the requests, in the order of Array.prototype.sort.
Alphabet == <<"active", "all", "gnss", "gps", "iss", "nope", "weather">>

Rank(name) == CHOOSE i \in 1..Len(Alphabet) : Alphabet[i] = name

\* names sorted as categories.sort() sorts them.
RECURSIVE SortNames(_)
SortNames(names) ==
    IF names = <<>> THEN <<>>
    ELSE LET least == CHOOSE i \in 1..Len(names) :
                         \A j \in 1..Len(names) :
                            \/ Rank(names[i]) < Rank(names[j])
                            \/ (Rank(names[i]) = Rank(names[j]) /\ i <= j)
         IN  <<names[least]>>
             \o SortNames(SubSeq(names, 1, least - 1)
                          \o SubSeq(names, least + 1, Len(names)))

\* CACHE_DURATION (line 42), 10 minutes.
ABOVE_CACHE_DURATION == 10 * 60 * 1000

\* The names of N2YO_CATEGORIES (lines 61-116) among those used.
N2YO_CATEGORIES == {"gps", "iss"}

\* getCacheKey (lines 44-46) of the parameters of lines 136-142, the
\* categories sorted: JSON.stringify tells the parameters apart.
AboveCacheKey(req) ==
    [observer |-> req.observer, searchRadius |-> req.searchRadius,
     categories |-> SortNames(req.categories)]

\* getCachedData (lines 48-54; lines 51-57 of n2yo/route.ts).
GetCachedData(map, key, t, duration) ==
    IF key \in DOMAIN map /\ t - map[key].timestamp < duration
    THEN [hit |-> TRUE, entry |-> map[key]]
    ELSE [hit |-> FALSE, entry |-> [data |-> <<>>, timestamp |-> 0]]

\* setCachedData (lines 56-58): cache.set(key, { data, timestamp: Date.now() }).
SetCachedData(map, key, data, t) ==
    [k \in (DOMAIN map) \cup {key} |->
        IF k = key THEN [data |-> data, timestamp |-> t] ELSE map[k]]

\* What one upstream query yields: a list, a status that is not OK, a body
\* reporting the rate limit, a body that is no list, a rejected fetch.
UpstreamOutcomes == {"ok", "notOk", "rateLimited", "invalid", "threw"}

\* The requests: a pair of names, one of them no category of the route, in
\* both orders, and the category "all" of another observer.
AboveRequests ==
    {[observer |-> [lat |-> 0, lon |-> 0, alt |-> 0], searchRadius |-> 90, categories |-> c] :
        c \in {<<"nope", "iss">>, <<"iss", "nope">>}}
    \cup {[observer |-> [lat |-> 60, lon |-> 10, alt |-> 0], searchRadius |-> 90,
           categories |-> <<"all">>]}

\* Lines 271-282: the result, stamped with Date.now().
AboveResult(satellites, req, categories, t) ==
    [satellites |-> satellites, count |-> Len(satellites), observer |-> req.observer,
     searchRadius |-> req.searchRadius, categories |-> categories, timestamp |-> t]

\* Lines 207-268: the categories whose query yields a list, in the order of
\* the sorted list (line 141 sorts in place).
RECURSIVE CategorySatellites(_, _, _)
CategorySatellites(categories, outcomes, i) ==
    IF i > Len(categories) THEN <<>>
    ELSE (IF categories[i] \in N2YO_CATEGORIES /\ outcomes[i] = "ok"
          THEN <<categories[i]>> ELSE <<>>)
         \o CategorySatellites(categories, outcomes, i + 1)

\* The upstream queries made for the categories before one is rejected.
QueriesMade(categories, outcomes) ==
    LET known == {i \in 1..Len(categories) : categories[i] \in N2YO_CATEGORIES}
        thrown == {i \in known : outcomes[i] = "threw"}
    IN  IF thrown = {} THEN Cardinality(known)
        ELSE Cardinality({i \in known : \A j \in thrown : i <= j})

\* GET (lines 118-301) with the API key configured: the answer, the cache
\* after it, and what was done for it.
AboveGET(req, outcomes, map, t) ==
    LET key == AboveCacheKey(req)
        cached == GetCachedData(map, key, t, ABOVE_CACHE_DURATION)
        categories == SortNames(req.categories)
        includeAll == \E i \in 1..Len(categories) : categories[i] = "all"
        answer(status, body, fromCache, age, queries, cacheAfter) ==
            [served |-> [handled |-> TRUE, req |-> req, status |-> status, body |-> body,
                         fromCache |-> fromCache, age |-> age, queries |-> queries,
                         wrote |-> cacheAfter # map],
             cache |-> cacheAfter]
        failed(status, queries) ==
            answer(status, AboveResult(<<>>, req, <<>>, 0), FALSE, 0, queries, map)
        result(satellites) ==
            AboveResult(satellites, req, IF includeAll THEN <<"all">> ELSE categories, t)
        fresh(satellites, queries) ==
            answer(200, result(satellites), FALSE, 0, queries,
                   SetCachedData(map, key, result(satellites), t))
    IN  IF cached.hit
        THEN answer(200, cached.entry.data, TRUE, t - cached.entry.timestamp, 0, map)
        ELSE IF includeAll
        THEN CASE outcomes[1] = "ok" -> fresh(<<"all">>, 1)
               [] outcomes[1] = "notOk" -> failed(503, 1)
               [] OTHER -> failed(500, 1)
        ELSE IF \E i \in 1..Len(categories) :
                    categories[i] \in N2YO_CATEGORIES /\ outcomes[i] = "threw"
        THEN failed(500, QueriesMade(categories, outcomes))
        ELSE fresh(CategorySatellites(categories, outcomes, 1),
                   QueriesMade(categories, outcomes))

\* A request to the route is handled.
AboveRequest ==
    /\ \E req \in AboveRequests, outcomes \in [1..2 -> UpstreamOutcomes] :
          LET r == AboveGET(req, outcomes, routeCache, routeNow)
          IN  /\ routeCache' = r.cache
              /\ served' = r.served
    /\ UNCHANGED <<workerVars, lonVars, visVars, tleVars, hookVars, routeNow>>

\* A minute passes.
AdvanceMinute ==
    /\ routeNow < MaxMinutes * 60 * 1000
    /\ routeNow' = routeNow + 60 * 1000
    /\ UNCHANGED <<workerVars, lonVars, visVars, tleVars, hookVars, routeCache, served>>

NextAbove == AboveRequest \/ AdvanceMinute

SpecAbove == Init /\ [][NextAbove]_vars

---------------------------------------------------------------------------
\* The route /api/satellites/fetch-tle
\* (src/src/app/api/satellites/fetch-tle/route.ts).  routeCache is the data
\* directory: the cache files by name, each with its contents and its mtime.

MaxHours == 7            \* hours the clock of the fetch-tle route advances

\* The names of CELESTRAK_ENDPOINTS (lines 11-57) among those used.
CELESTRAK_ENDPOINTS == {"active", "gnss", "weather"}

\* gzip and gunzip of the JSON text of a list.
Gzip(data) == [gz |-> data]

Gunzip(bytes) == bytes.gz

\* The key with the categories in the order of the request.
CategoriesKeyAsListed(categories) == categories

\* Line 182: categories.slice().sort().join(","); names split at the
\* commas hold none, so the joined text tells the sorted lists apart.
CategoriesKey(categories) == SortNames(categories)

\* Lines 183-193: satellites-<first 12 hex digits of the SHA-1 of the
\* key>.json.gz; the digest tells the keys used here apart.
CacheFile(categories) == [satellites |-> CategoriesKey(categories)]

\* The requests: a pair of categories in both orders, and a category with a
\* name that is no category of the route; force and compressed as given.
TleRequests ==
    [categories : {<<"active", "gnss">>, <<"gnss", "active">>, <<"weather", "nope">>},
     force : BOOLEAN, compressed : BOOLEAN]

\* fetchTLEFromCelesTrak (lines 87-135): the satellites of a category, or
\* none when the fetch fails.
ProviderOutcomes == {"ok", "failed"}

\* Lines 235-241: the categories with an endpoint, in the order listed.
RECURSIVE KnownCategories(_)
KnownCategories(categories) ==
    IF categories = <<>> THEN <<>>
    ELSE (IF Head(categories) \in CELESTRAK_ENDPOINTS THEN <<Head(categories)>> ELSE <<>>)
         \o KnownCategories(Tail(categories))

\* Lines 233-258: allSatellites, one satellite for each category fetched.
RECURSIVE AllSatellites(_, _, _)
AllSatellites(categories, outcomes, i) ==
    IF i > Len(categories) THEN <<>>
    ELSE (IF categories[i] \in CELESTRAK_ENDPOINTS /\ outcomes[i] = "ok"
          THEN <<categories[i]>> ELSE <<>>)
         \o AllSatellites(categories, outcomes, i + 1)

\* saveCompressedData (lines 137-160): the file is written at time t.
SaveCompressedData(files, name, data, t) ==
    [f \in (DOMAIN files) \cup {name} |->
        IF f = name THEN [bytes |-> Gzip(data), mtime |-> t] ELSE files[f]]

\* GET (lines 161-295): the answer, the data directory after it, and what was
\* done for it.
TleGET(req, outcomes, files, t) ==
    LET cacheFile == CacheFile(req.categories)
        exists == cacheFile \in DOMAIN files
        age == IF exists THEN t - files[cacheFile].mtime ELSE 0
        respond(data) == [gzip |-> req.compressed, data |-> data]
        allSatellites == AllSatellites(req.categories, outcomes, 1)
    IN  IF ~req.force /\ exists /\ age < 6 * 60 * 60 * 1000
        THEN [served |-> [handled |-> TRUE, req |-> req, status |-> 200,
                          body |-> respond(Gunzip(files[cacheFile].bytes)),
                          fromCache |-> TRUE, age |-> age, queries |-> <<>>,
                          wrote |-> FALSE],
              cache |-> files]
        ELSE [served |-> [handled |-> TRUE, req |-> req, status |-> 200,
                          body |-> respond(allSatellites),
                          fromCache |-> FALSE, age |-> 0,
                          queries |-> KnownCategories(req.categories),
                          wrote |-> TRUE],
              cache |-> SaveCompressedData(files, cacheFile, allSatellites, t)]

\* A request to the route is handled (GET, or POST: lines 298-300).
TleRequest ==
    /\ \E req \in TleRequests, outcomes \in [1..2 -> ProviderOutcomes] :
          LET r == TleGET(req, outcomes, routeCache, routeNow)
          IN  /\ routeCache' = r.cache
              /\ served' = r.served
    /\ UNCHANGED <<workerVars, lonVars, visVars, tleVars, hookVars, routeNow>>

\* An hour passes.
AdvanceHour ==
    /\ routeNow < MaxHours * 60 * 60 * 1000
    /\ routeNow' = routeNow + 60 * 60 * 1000
    /\ UNCHANGED <<workerVars, lonVars, visVars, tleVars, hookVars, routeCache, served>>

NextTleGet == TleRequest \/ AdvanceHour

SpecTleGet == Init /\ [][NextTleGet]_vars

---------------------------------------------------------------------------
\* The proxy route /api/satellites/n2yo
\* (src/src/app/api/satellites/n2yo/route.ts), with its own cache.

\* CACHE_DURATION (line 45), 5 minutes.
N2YO_CACHE_DURATION == 5 * 60 * 1000

\* An absent query parameter: searchParams.get returns null.
NoParam == "null"

\* Lines 118-161: the endpoints that need a noradId.
NeedNoradId == {"visualpasses", "radiopasses", "positions", "tle"}

\* Lines 111-170: the endpoints of the switch.
Endpoints == {"above"} \cup NeedNoradId

\* The requests: no endpoint, an unknown one, one that needs no noradId, and
\* one that needs it, with and without it.
ProxyRequests ==
    {[endpoint |-> NoParam, noradId |-> NoParam],
     [endpoint |-> "bogus", noradId |-> NoParam],
     [endpoint |-> "above", noradId |-> NoParam],
     [endpoint |-> "tle", noradId |-> NoParam],
     [endpoint |-> "tle", noradId |-> "25544"]}

\* getCacheKey (lines 47-49) of the parameters of lines 91-100; the observer
\* and the other numbers have their defaults in every request.
ProxyCacheKey(req) == [endpoint |-> req.endpoint, noradId |-> req.noradId]

\* The JSON body of an upstream response with status 200: the data asked
\* for, an object with an error member (the rate limit: above/route.ts,
\* lines 173-181), or other JSON.
UpstreamBody(outcome) ==
    [error |-> outcome = "rateLimited",
     data |-> IF outcome = "ok" THEN "data" ELSE "none"]

\* A body the route makes itself (lines 84-89, 119-124, 163-170, 173-180,
\* 188-194).
ErrorBody == [error |-> TRUE, data |-> "none"]

\* GET (lines 64-195) of the proxy, the API key configured: the answer, the cache
\* after it, and what was done for it.
ProxyGET(req, outcome, map, t) ==
    LET key == ProxyCacheKey(req)
        cached == GetCachedData(map, key, t, N2YO_CACHE_DURATION)
        answer(status, body, fromCache, age, upstream, cacheAfter) ==
            [served |-> [handled |-> TRUE, req |-> req, status |-> status, body |-> body,
                         fromCache |-> fromCache, age |-> age, upstream |-> upstream,
                         wrote |-> cacheAfter # map],
             cache |-> cacheAfter]
    IN  IF req.endpoint = NoParam
        THEN answer(400, ErrorBody, FALSE, 0, "none", map)
        ELSE IF cached.hit
        THEN answer(200, cached.entry.data, TRUE, t - cached.entry.timestamp, "none", map)
        ELSE IF req.endpoint \notin Endpoints
        THEN answer(400, ErrorBody, FALSE, 0, "none", map)
        ELSE IF req.endpoint \in NeedNoradId /\ req.noradId = NoParam
        THEN answer(400, ErrorBody, FALSE, 0, "none", map)
        ELSE CASE outcome = "threw" -> answer(500, ErrorBody, FALSE, 0, outcome, map)
               [] outcome = "notOk" -> answer(429, ErrorBody, FALSE, 0, outcome, map)
               [] OTHER -> answer(200, UpstreamBody(outcome), FALSE, 0, outcome,
                                  SetCachedData(map, key, UpstreamBody(outcome), t))

\* A request to the proxy is handled.
ProxyRequest ==
    /\ \E req \in ProxyRequests, outcome \in UpstreamOutcomes :
          LET r == ProxyGET(req, outcome, routeCache, routeNow)
          IN  /\ routeCache' = r.cache
              /\ served' = r.served
    /\ UNCHANGED <<workerVars, lonVars, visVars, tleVars, hookVars, routeNow>>

NextProxy == ProxyRequest \/ AdvanceMinute

SpecProxy == Init /\ [][NextProxy]_vars

---------------------------------------------------------------------------
\* Properties.  last describes the handler whose answer is in the outbox:
\* last.msg.satellites[i] is the i-th catalog entry and last.pass.log[i] what
\* the pass did with it.

Sats == last.msg.satellites
PassLog == last.pass.log
Indices == 1..Len(PassLog)

\* The parser ran on entry i and returned a record.
ParsedAt(i) == Sats[i].hasTle /\ PassLog[i].invoked /\ ~PassLog[i].satrec.null

\* parseTLE returned a record for entry i.
ReturnedAt(i) == Sats[i].hasTle /\ ~PassLog[i].satrec.null

\* C1: every record parseTLE returns for an entry was parsed from that entry's
\* own (noradId, line1, line2): two entries that differ in one of the three
\* fields never share a cache key, so none is answered with the other's record.
C1_KeyIdentifiesText ==
    last.ran =>
        \A i \in Indices :
            ReturnedAt(i) =>
                /\ Triple(Sats[i]) \in DOMAIN firstParsed
                /\ firstParsed[Triple(Sats[i])] = PassLog[i].satrec

\* Entry j's triple was parsed with success before entry j was looked up: in
\* an earlier batch, or earlier in this one.
ParsedEarlier(j) ==
    \/ Triple(Sats[j]) \in DOMAIN last.parsedBefore
    \/ \E i \in 1..(j - 1) : ParsedAt(i) /\ Triple(Sats[i]) = Triple(Sats[j])

\* C2: once an entry has been parsed with success, every later parseTLE of an
\* identical (noradId, line1, line2) returns that same record and does not
\* call the parser.
C2_CachedRecordReused ==
    last.ran =>
        \A j \in Indices :
            (Sats[j].hasTle /\ ParsedEarlier(j)) =>
                /\ ~PassLog[j].invoked
                /\ PassLog[j].satrec = firstParsed[Triple(Sats[j])]

\* A later batch looks up a triple parsed in an earlier batch.
C2_Witness ==
    /\ last.ran
    /\ \E j \in Indices :
          /\ Sats[j].hasTle
          /\ Triple(Sats[j]) \in DOMAIN last.parsedBefore
          /\ ~PassLog[j].invoked
          /\ ~PassLog[j].satrec.null

Count(fates) == Cardinality({i \in Indices : PassLog[i].fate \in fates})

\* Parse failures: the entry's element text gave no usable record.  Its lines
\* are missing (line 61 or the parser throws), parseTLE returned null, or a
\* numeric field is malformed and the record fails the check of lines 156-160.
ParseFailures == Count({"threwParsing", "parseNull", "invalid"})

\* Propagation failures: a valid record and no inertial state.
PropagationFailures == Count({"threwPropagating", "propagationFailed", "velocityMissing"})

\* Transform failures: an inertial state and no finite geodetic position.
TransformFailures == Count({"transformFailed"})

\* C4: a pass over N entries with p parse failures, g propagation failures
\* and t transform failures returns N - p - g - t samples, and its counters
\* (parsed, propagated, geodetic) yield p, g and t.
C4_Conservation ==
    last.ran =>
        LET N == Len(Sats)
            pass == last.pass
        IN  /\ Len(PassLog) = N
            /\ Len(pass.positions) = N - ParseFailures - PropagationFailures - TransformFailures
            /\ N - pass.parsedCount = ParseFailures
            /\ pass.parsedCount - pass.propagatedCount = PropagationFailures
            /\ pass.propagatedCount - pass.geodeticCount = TransformFailures
            /\ pass.geodeticCount = Len(pass.positions)

\* The part of C4 that holds: every entry has exactly one fate, the samples
\* are N - p - g - t, and the counters tell the failures apart when a record
\* with a malformed numeric field is tallied with the propagation failures,
\* as line 153 tallies it.
C4_SamplesConserved ==
    last.ran =>
        LET N == Len(Sats)
            pass == last.pass
            invalid == Count({"invalid"})
        IN  /\ Len(PassLog) = N
            /\ Len(pass.positions) = N - ParseFailures - PropagationFailures - TransformFailures
            /\ N - pass.parsedCount = ParseFailures - invalid
            /\ pass.parsedCount - pass.propagatedCount = PropagationFailures + invalid
            /\ pass.propagatedCount - pass.geodeticCount = TransformFailures
            /\ pass.geodeticCount = Len(pass.positions)

\* A pass over an entry with a malformed numeric field, and a sample.
C4_Witness ==
    /\ last.ran
    /\ Count({"invalid"}) >= 1
    /\ Len(last.pass.positions) >= 1

Identity(r) == <<r.name, r.noradId, r.category>>

\* samples[i..] embeds into catalog[j..] in order.
RECURSIVE Embeds(_, _, _, _)
Embeds(samples, i, catalog, j) ==
    IF i > Len(samples) THEN TRUE
    ELSE IF j > Len(catalog) THEN FALSE
    ELSE IF Identity(samples[i]) = Identity(catalog[j])
         THEN Embeds(samples, i + 1, catalog, j + 1)
         ELSE Embeds(samples, i, catalog, j + 1)

\* C5: the batch is an order-preserving subsequence of the catalog: the
\* samples carry the name, noradId and category of distinct entries, in the
\* order of the catalog.
C5_OrderedSubsequence ==
    last.ran => Embeds(last.pass.positions, 1, Sats, 1)

\* Two samples of two different entries.
C5_Witness ==
    /\ last.ran
    /\ Len(last.pass.positions) = 2
    /\ last.pass.positions[1].name # last.pass.positions[2].name

Without(seq, i) == SubSeq(seq, 1, i - 1) \o SubSeq(seq, i + 1, Len(seq))

\* C6: an entry that fails aborts nothing and yields no ERROR, and the samples
\* of the pass are those of the pass over the catalog without that entry.
C6_FailureIsolated ==
    last.ran =>
        /\ Len(last.emitted) = 1
        /\ last.emitted[1].type = "POSITIONS"
        /\ Len(PassLog) = Len(Sats)
        /\ \A i \in Indices :
              PassLog[i].fate # "emitted" =>
                  last.pass.positions =
                      PropagateSatellites(last.cacheBefore, Without(Sats, i),
                                          last.timestamp, ObserverOf(last.msg)).positions

VecFinite(v) == isFinite(v.x) /\ isFinite(v.y) /\ isFinite(v.z)

\* C7: no sample of a POSITIONS message has a non-finite lat, lon, alt or
\* velocity component.
C7_SamplesFinite ==
    \A m \in 1..Len(outbox) :
        \A i \in 1..Len(outbox[m].positions) :
            LET sample == outbox[m].positions[i]
            IN  /\ isFinite(sample.position.lat)
                /\ isFinite(sample.position.lon)
                /\ isFinite(sample.position.alt)
                /\ VecFinite(sample.velocity)

\* C8: the normalised longitude lies in [-180, 180) and differs from the
\* input by whole turns, for every input in -LonBound..LonBound.
C8_LonInRange ==
    lonOut.done =>
        /\ -180 <= lonOut.v
        /\ lonOut.v < 180
        /\ (lonOut.v - lonIn) % 360 = 0

\* An input at or beyond +180 comes out as -180.
C8_Witness == lonOut.done /\ lonIn >= 180 /\ lonOut.v = -180

\* The same for the samples the worker posts.
EmittedLonInRange ==
    \A m \in 1..Len(outbox) :
        \A i \in 1..Len(outbox[m].positions) :
            LET lon == outbox[m].positions[i].position.lon
            IN  isFinite(lon) /\ -180 <= lon.v /\ lon.v < 180

\* The request is structurally invalid: no data, or no satellites list.
StructurallyInvalid(msg) == msg.data \in {"none", "nolist", "notiterable"}

\* C9: the handler of a PROPAGATE message posts exactly one message: an ERROR
\* when the request is structurally invalid, a POSITIONS otherwise.
C9_ExactlyOneResponse ==
    (last.handled /\ last.msg.type = "PROPAGATE") =>
        /\ Len(outbox) = 1
        /\ outbox = last.emitted
        /\ outbox[1].type = IF StructurallyInvalid(last.msg) THEN "ERROR" ELSE "POSITIONS"

\* A request without a satellites list has been answered with an ERROR.
C9_Witness ==
    /\ last.handled
    /\ last.msg.type = "PROPAGATE"
    /\ last.msg.data = "nolist"
    /\ Len(outbox) = 1
    /\ outbox[1].type = "ERROR"

CatalogMissing(msg) == msg.data \in {"none", "nolist"}
CatalogEmpty(msg) == msg.data = "list" /\ msg.satellites = <<>>

ZeroSamples(posted) ==
    /\ Len(posted) = 1
    /\ posted[1].type = "POSITIONS"
    /\ posted[1].positions = <<>>
    /\ posted[1].count = 0

\* C10 as stated: a PROPAGATE whose catalog is missing or empty is answered
\* with a POSITIONS of zero samples and count 0, and no ERROR.
C10_MissingOrEmptyNotError ==
    (last.handled /\ last.msg.type = "PROPAGATE"
        /\ (CatalogMissing(last.msg) \/ CatalogEmpty(last.msg))) =>
        ZeroSamples(outbox)

\* C10 amended: an empty catalog is answered with a POSITIONS of zero samples
\* and count 0 and no ERROR; a missing catalog is answered with one ERROR and
\* no POSITIONS.
C10_EmptyNotErrorMissingIsError ==
    (last.handled /\ last.msg.type = "PROPAGATE") =>
        /\ CatalogEmpty(last.msg) => ZeroSamples(outbox)
        /\ CatalogMissing(last.msg) => (Len(outbox) = 1 /\ outbox[1].type = "ERROR")

\* An empty catalog has been answered.
C10_Witness ==
    /\ last.handled
    /\ last.msg.type = "PROPAGATE"
    /\ CatalogEmpty(last.msg)
    /\ ZeroSamples(outbox)

Readies(posted) == Cardinality({i \in 1..Len(posted) : posted[i].type = "READY"})

\* C11: the worker emits READY exactly once.  The READY of line 330 is posted
\* when the module is loaded (it is in the outbox of the initial state), so no
\* handler may post another one.
C11_ReadyOnce ==
    last.handled => Readies(last.emitted) = 0

\* C11 amended: READY is posted once when the module is loaded and once in
\* answer to each INIT message, and to no other message.
C11_ReadyAtLoadAndPerInit ==
    /\ last.handled => Readies(last.emitted) = (IF last.msg.type = "INIT" THEN 1 ELSE 0)
    /\ last.handled => outbox = last.emitted
    /\ ~last.handled => outbox \in {<<>>, <<Ready>>}

\* An INIT message has been answered with READY, after the READY of the load.
C11_Witness ==
    /\ last.handled
    /\ last.msg.type = "INIT"
    /\ outbox = <<Ready>>

\* C12: two PROPAGATE requests with the same catalog and the same instant get
\* the same POSITIONS output, whatever the cache holds and whatever the clock
\* reads when each is handled.  The request just handled is compared with the
\* same request handled first of all (empty cache), at every clock reading.
C12_Idempotent ==
    (last.ran /\ last.msg.timestamp.has) =>
        \A now \in Clock : Handle(last.msg, <<>>, now).emitted = last.emitted

\* C17: every sample of every POSITIONS message has visible = true, whatever
\* its altitude and its distance from the observer.
C17_AlwaysVisible ==
    \A m \in 1..Len(outbox) :
        \A i \in 1..Len(outbox[m].positions) : outbox[m].positions[i].visible

\* A sample below the minimum altitude of the classifier is marked visible.
C17_Witness ==
    \E m \in 1..Len(outbox) :
        \E i \in 1..Len(outbox[m].positions) :
            /\ outbox[m].positions[i].position.alt.v < MinAltitude
            /\ outbox[m].positions[i].visible

\* C20: the cache holds only validated records: every cached record has a
\* finite mean motion, eccentricity and inclination, so every cache hit
\* returns a record that can be propagated.
C20_CacheHoldsValidRecords ==
    \A k \in DOMAIN satelliteCache : ~SatrecInvalid(satelliteCache[k])

\* Degrees between the observer and the point below the object, along the
\* equator (the shorter way round) or along the meridian.
Separation(in) ==
    IF in.position.lon = in.observerLon
    THEN Abs(in.position.lat - in.observerLat)
    ELSE LET d == Abs(in.position.lon - in.observerLon)
         IN  IF d <= 360 - d THEN d ELSE 360 - d

\* C16: the classifier returns false below 200 km whatever the observer, and
\* from 200 km on returns true exactly when the great-circle distance to the
\* point below the object is under 2000 km.  On a sphere of radius 6371 km
\* an arc of 17 degrees is 1890 km long and one of 18 degrees 2001 km.
C16_VisibilityRule ==
    visOut.done =>
        visOut.v = (/\ visIn.position.alt >= 200000
                    /\ Separation(visIn) <= 17)

\* An object at exactly 200 km directly above the observer is visible.
C16_Witness ==
    /\ visOut.done
    /\ visIn.position.alt = 200000
    /\ Separation(visIn) = 0
    /\ visOut.v

\* The lines the loop of the route reads, and columns 3-7 of a line, trimmed.
TleLines == Split(Trim(tleIn))
Columns3To7(line) ==
    Trim([k \in 1..(IF Len(line) >= 7 THEN 5 ELSE IF Len(line) > 2 THEN Len(line) - 2 ELSE 0)
            |-> line[k + 2]])

\* C19: every group of three lines gives one entry, whose catalog number is
\* the trimmed text of columns 3-7 of line 2 when that is made of digits, and
\* of columns 3-7 of line 1 otherwise; a trailing group of fewer than three
\* lines gives no entry.
C19_CatalogNumber ==
    tleOut.done =>
        /\ Len(tleOut.v) = Len(TleLines) \div 3
        /\ \A g \in 1..Len(tleOut.v) :
              LET line1 == Trim(TleLines[3 * g - 1])
                  line2 == Trim(TleLines[3 * g])
                  n2 == Columns3To7(line2)
              IN  /\ tleOut.v[g].line1 = line1
                  /\ tleOut.v[g].line2 = line2
                  /\ tleOut.v[g].noradId =
                        (IF n2 # <<>> /\ (\A i \in 1..Len(n2) : n2[i] \in Digits)
                         THEN n2 ELSE Columns3To7(line1))

\* A group whose line 2 has no numeric field took its number from line 1,
\* and a trailing line gave no entry.
C19_Witness ==
    /\ tleOut.done
    /\ Len(TleLines) = 4
    /\ Len(tleOut.v) = 1
    /\ ~IsDigits(Columns3To7(tleOut.v[1].line2))
    /\ tleOut.v[1].noradId = <<"0", "0", "0", "0", "7">>

\* The triggers the worker holds: the one its handler runs on, then the queue.
Held == (IF running.busy THEN <<running.msg>> ELSE <<>>) \o inbox

\* C13: a trigger posted while a pass runs does not disturb the pass and is
\* neither dropped nor coalesced: every trigger posted is answered, running
\* or queued, and the worker answers the triggers in the order in which they
\* were posted, with one response each.
C13_AnsweredInPostingOrder ==
    /\ Len(postedLog) = Len(emittedLog) + Len(Held)
    /\ \A i \in 1..Len(emittedLog) :
          /\ emittedLog[i].msg = postedLog[i].msg
          /\ emittedLog[i].types = <<"POSITIONS">>
          /\ emittedLog[i].timestamp = postedLog[i].msg.timestamp.v
    /\ \A k \in 1..Len(Held) :
          Len(emittedLog) + k <= Len(postedLog)
              /\ Held[k] = postedLog[Len(emittedLog) + k].msg

\* A trigger posted while a pass was running has been answered, after the
\* trigger of that pass.
C13_Witness ==
    \E i \in 2..Len(emittedLog) :
        /\ postedLog[i].whilePass
        /\ emittedLog[i].msg = postedLog[i].msg

\* C14: when a new catalog has arrived at the hook while a pass over the old
\* one was running, the next pass the worker starts uses the new catalog (the
\* catalog the hook holds when that pass starts), also when further triggers
\* were queued behind the running pass.
C14_NextPassUsesNewCatalog ==
    (running.busy /\ running.afterSupersede) =>
        running.msg.satellites = running.catalogAtStart

\* Nothing is queued, nothing runs and every response has been received.
Quiescent == inbox = <<>> /\ ~running.busy /\ outbox = <<>>

\* C15: when a tick has fired before the pass of an earlier tick had
\* finished, the worker reports it: once all is quiet, one of the messages
\* it has posted is something else than a READY or a POSITIONS result.
C15_SaturationReported ==
    (hist.overrun /\ Quiescent) =>
        \E i \in 1..Len(emittedLog) :
            \E j \in 1..Len(emittedLog[i].types) :
                emittedLog[i].types[j] \notin {"READY", "POSITIONS"}

\* C18: the hook posts a trigger only when a catalog arrives or the timer
\* ticks, apart from the one call made when the timer is first installed:
\* no trigger is posted by the render that follows a POSITIONS result, and
\* at most one comes from line 260, the call the effect makes.
C18_TriggersFromCatalogOrTick ==
    /\ \A i \in 1..Len(postedLog) : postedLog[i].cause # "effect after POSITIONS"
    /\ Cardinality({i \in 1..Len(postedLog) :
            postedLog[i].cause \in {"effect", "effect after POSITIONS"}}) <= 1


---------------------------------------------------------------------------
\* C25: the observer of a PROPAGATE request has no effect on the result: the
\* request just handled, handled with any other observer from the same
\* cache and at the same clock reading, is answered with the same messages,
\* the visible flag of every sample included.
C25_ObserverHasNoEffect ==
    last.ran =>
        \A o \in Observers :
            Handle([last.msg EXCEPT !.observer = o], last.cacheBefore, last.now).emitted
                = last.emitted

\* A request with an observer was answered with a sample that the classifier
\* of lines 101-133 tells apart for the two observers.
C25_Witness ==
    /\ last.ran
    /\ last.msg.observer.has
    /\ \E i \in 1..Len(last.pass.positions) :
          VisibleToObserver(last.pass.positions[i].position, ObserverOf(last.msg))
              # VisibleToObserver(last.pass.positions[i].position,
                                  [lat |-> 0, lon |-> 0, alt |-> 0])


\* C26: the timestamp of a POSITIONS message is the timestamp of the request
\* that caused it, and the pass is computed for that instant, for every
\* timestamp the request can carry; the clock is read only when the request
\* carries none.
C26_TimestampEchoed ==
    (last.ran /\ last.msg.timestamp.has) =>
        /\ last.timestamp = last.msg.timestamp.v
        /\ \A i \in 1..Len(last.emitted) :
              last.emitted[i].timestamp = last.msg.timestamp.v
        /\ last.pass.positions =
              PropagateSatellites(last.cacheBefore, last.msg.satellites,
                                  last.msg.timestamp.v, ObserverOf(last.msg)).positions


---------------------------------------------------------------------------
\* C23: the hook never posts a PROPAGATE whose catalog is empty: every trigger
\* posted, from a tick, from the effect or after a fetch, and so every
\* message the worker holds, carries at least one entry.
C23_NoEmptyTrigger ==
    /\ \A i \in 1..Len(postedLog) : postedLog[i].msg.satellites # <<>>
    /\ \A k \in 1..Len(inbox) : inbox[k].satellites # <<>>
    /\ running.busy => running.msg.satellites # <<>>

\* A fetch has brought an empty catalog to a hook that had posted triggers,
\* and all of them have been answered.
C23_Witness ==
    /\ satelliteDataRef = <<>>
    /\ hook.lastCategoriesRef # <<>>
    /\ postedLog # <<>>
    /\ Len(emittedLog) = Len(postedLog)

\* C24: once no fetch is in flight and the fetch started last has succeeded,
\* the remembered categories are the selected ones and the catalog held is
\* one fetched for them, whatever the order of the responses.
C24_LatestSelectionWins ==
    (hook.inflight = <<>> /\ hist.newestOk) =>
        /\ hook.lastCategoriesRef = hook.categories
        /\ satelliteDataRef \in FetchedCatalogs(hook.categories)

\* C27: a mounted hook has at most one active timer, and an unmounted one
\* has none and no tick of it has fired.
C27_OneTimer ==
    /\ Cardinality(hook.timers) <= 1
    /\ ~hook.mounted => (hook.timers = {} /\ ~hist.lateTick)

\* The hook was unmounted after the effect had run again and posted.
C27_Witness ==
    /\ ~hook.mounted
    /\ \E i \in 1..Len(postedLog) : postedLog[i].cause = "effect"

C28_ErrorKeepsBatch ==
    [][(outbox # <<>> /\ Head(outbox).type = "ERROR" /\ outbox' = Tail(outbox)) =>
        /\ hook'.error = Head(outbox).error
        /\ hook'.satellites = hook.satellites
        /\ hook'.lastUpdate = hook.lastUpdate]_vars

\* An ERROR was received by a hook that shows a batch.
C28_Witness ==
    /\ outbox = <<>>
    /\ hook.error = "No satellite data provided"
    /\ hook.satellites # <<>>
    /\ hook.lastUpdate # NoUpdate


---------------------------------------------------------------------------
\* C21: the route /api/satellites/above answers from its cache only with a
\* response younger than 2 minutes: a request whose cached entry is 2
\* minutes old or older is answered by a fresh upstream query.
C21_CachedForTwoMinutes ==
    (served.handled /\ served.fromCache) => served.age < 2 * 60 * 1000

\* What the route does: it answers from the cache while the entry is younger
\* than CACHE_DURATION, 10 minutes, and queries upstream from then on.
C21_CachedForCacheDuration ==
    served.handled =>
        /\ served.fromCache => served.age < ABOVE_CACHE_DURATION
        /\ served.queries = 0 <=> served.fromCache


---------------------------------------------------------------------------
\* Two lists name the same categories, each as often, in whatever order.
SameCategories(a, b) ==
    /\ Len(a) = Len(b)
    /\ \A name \in {a[i] : i \in 1..Len(a)} \cup {b[i] : i \in 1..Len(b)} :
          Cardinality({i \in 1..Len(a) : a[i] = name})
              = Cardinality({i \in 1..Len(b) : b[i] = name})

\* The cache files written for the categories of a request, in whatever order.
FilesFor(categories) ==
    {f \in DOMAIN routeCache : SameCategories(f.satellites, categories)}

---------------------------------------------------------------------------
\* The request is one the proxy rejects: no endpoint, an unknown endpoint, or
\* no noradId for an endpoint that needs it.
Rejected(req) ==
    \/ req.endpoint \notin Endpoints
    \/ (req.endpoint \in NeedNoradId /\ req.noradId = NoParam)

\* C29: in the n2yo proxy only successful upstream responses enter the cache:
\* a rejected request is answered 400 with no upstream call and no cache
\* write, an upstream response that is not OK is relayed with its status and
\* not cached, and no request is answered with a cached error.
C29_OnlySuccessCached ==
    /\ \A key \in DOMAIN routeCache : ~routeCache[key].data.error
    /\ served.handled =>
          /\ Rejected(served.req) =>
                served.status = 400 /\ served.upstream = "none" /\ ~served.wrote
          /\ served.upstream = "notOk" => served.status = 429 /\ ~served.wrote
          /\ served.fromCache => ~served.body.error

\* What the proxy does: rejected requests and upstream responses that are not
\* OK never enter the cache, and every body with status 200 does, an error
\* reported in the body included.
C29_OnlyStatusOkCached ==
    served.handled =>
        /\ Rejected(served.req) =>
              served.status = 400 /\ served.upstream = "none" /\ ~served.wrote
        /\ served.upstream \in {"notOk", "threw"} => served.status # 200 /\ ~served.wrote
        /\ served.wrote => served.status = 200 /\ ~served.fromCache
        /\ \A key \in DOMAIN routeCache : ~Rejected(key)

============================================================================
